---- MODULE Spec2Model ----
(***************************************************************************)
(* Model of rdacb.py: the RDACB bot.  The store is a SQLite file with two  *)
(* tables (tracked, downvoted); the poll loop run() reads the tracked      *)
(* users and scans each one's newest comments, saving the downvoted ones.  *)
(***************************************************************************)
EXTENDS Integers, Sequences, FiniteSets, TLC

(***************************************************************************)
(* Bounds and input domains                                                *)
(***************************************************************************)
MaxComments == 2
MaxAbsScore == 1
SleepInterval == 10

Usernames == {"alice", "bob"}
CommentIds == {"t1_a", "t1_b"}
Bodies == {"b1", "b2"}
SourceBodies == {"b1"}
RunCommentIds == {"t1_a"}
Times == {1}
Scores == (0 - MaxAbsScore)..MaxAbsScore
TableNames == {"tracked", "downvoted"}

\* A comment object as the Comment Source hands it over.  link_permalink,
\* subreddit_id and created_utc never change for a given comment, so they
\* are functions of its fullname.
LinkOf(id) == <<"link", id>>
SubOf(id) == <<"sub", id>>
CreatedOf(id) == IF id = "t1_a" THEN 1 ELSE 2

CommentsWith(ids, hiddens, bodies) ==
    { [fullname |-> i, score |-> s, score_hidden |-> h, body |-> b,
       link_permalink |-> LinkOf(i), subreddit_id |-> SubOf(i),
       created_utc |-> CreatedOf(i)] :
        i \in ids, s \in Scores, h \in hiddens, b \in bodies }

\* comments a caller passes to save_downvoted (which never reads
\* score_hidden), comments the Comment Source yields to a direct scan_user,
\* and comments it yields to the scans of run() (one comment, whose score
\* changes from one listing to the next)
Comments == CommentsWith(CommentIds, {FALSE}, Bodies)
SourceComments == CommentsWith(CommentIds, BOOLEAN, SourceBodies)
RunComments == CommentsWith(RunCommentIds, {FALSE}, SourceBodies)

VARIABLES
    tables,       \* names of the tables that exist in the store file
    tracked,      \* rows of table tracked, in rowid (insertion) order
    downvoted,    \* rows of table downvoted (WITHOUT ROWID, keyed by id)
    pc,           \* position of the process: "setup", or a place in run()
    users,        \* run(): local variable users (line 89)
    iter,         \* run(): the list the for loop of line 95 iterates
    idx,          \* run(): position of the for loop in iter
    caller,       \* who called the scan_user in progress: "api" or "run"
    scanUser,     \* scan_user(): parameter user
    counterBound, \* scan_user(): whether local variable counter is bound
    yielded,      \* comments the source has yielded in the scan in progress
    saved,        \* comments save_downvoted was called with in that scan
    scanBase,     \* table downvoted as it was when that scan began
    prev,         \* comments yielded by the scan that is being repeated
    scanned,      \* (user, hidden) pairs the for loop has bound in this cycle
    idle,         \* time slept since the last get_users of run()
    lastOp,       \* the operation the last step belongs to
    raised,       \* exception raised by the last operation, or "none"
    args,         \* arguments of the last direct call
    removed,      \* number of downvoted rows the last direct call removed
    result        \* value returned by the last direct call

store == <<tables, tracked, downvoted>>
runVars == <<users, iter, idx, scanned, idle>>
scanVars == <<caller, scanUser, counterBound, yielded, saved, scanBase,
              prev>>
vars == <<tables, tracked, downvoted, pc, users, iter, idx, caller, scanUser,
          counterBound, yielded, saved, scanBase, prev, scanned, idle, lastOp,
          raised, args, removed, result>>
callVars == <<args, removed, result>>

(***************************************************************************)
(* The store: pure functions of the table contents                         *)
(***************************************************************************)
Range(s) == { s[i] : i \in 1..Len(s) }

TrackedNames(t) == { t[i].username : i \in 1..Len(t) }

\* INSERT INTO tracked VALUES (user, now, hidden, False)
TrackedRow(user, now, hidden) ==
    [username |-> user, added |-> now, hidden |-> hidden, deleted |-> FALSE]

\* variant: INSERT OR REPLACE revives an existing row
add_user_replace(t, user, now, hidden) ==
    [tracked |-> Append(SelectSeq(t, LAMBDA r : r.username # user),
                        TrackedRow(user, now, hidden)),
     raised |-> "none"]

\* add_user: the INSERT fails on the PRIMARY KEY and the transaction of
\* "with self.db" rolls back; the exception is re-raised.
add_user(t, user, now, hidden) ==
    IF user \in TrackedNames(t)
    THEN [tracked |-> t, raised |-> "IntegrityError"]
    ELSE [tracked |-> Append(t, TrackedRow(user, now, hidden)),
          raised |-> "none"]

\* variant: the query also leaves out the hidden users
get_users_visible(t) ==
    LET vis(r) == ~r.deleted /\ ~r.hidden
        s == SelectSeq(t, vis)
    IN  [i \in 1..Len(s) |-> <<s[i].username, s[i].hidden>>]

\* variant: the query without its WHERE clause
get_users_all(t) == [i \in 1..Len(t) |-> <<t[i].username, t[i].hidden>>]

\* SELECT username, hidden FROM tracked WHERE deleted = 0
RECURSIVE get_users(_)
get_users(t) ==
    IF t = << >> THEN << >>
    ELSE IF Head(t).deleted
         THEN get_users(Tail(t))
         ELSE << <<Head(t).username, Head(t).hidden>> >> \o get_users(Tail(t))

\* variant: author and comment id in each other's place in the tuple
DownvotedRowSwapped(author, comment) ==
    [id |-> author, author |-> comment.fullname, score |-> comment.score,
     permalink |-> comment.link_permalink, sub_id |-> comment.subreddit_id,
     created |-> comment.created_utc, body |-> comment.body]

\* the tuple "data" of save_downvoted
DownvotedRow(author, comment) ==
    [id |-> comment.fullname, author |-> author, score |-> comment.score,
     permalink |-> comment.link_permalink, sub_id |-> comment.subreddit_id,
     created |-> comment.created_utc, body |-> comment.body]

\* variant: a column score without the CHECK constraint
ScoreCheckNone(row) == TRUE

\* CHECK(score IS NOT NULL AND score <= 0)
ScoreCheck(row) == row.score <= 0

\* variant: a plain INSERT fails on a PRIMARY KEY that is already there
save_downvoted_insert(d, author, comment) ==
    LET row == DownvotedRow(author, comment) IN
    IF ScoreCheck(row) /\ ~\E r \in d : r.id = row.id
    THEN [downvoted |-> d \cup {row}, raised |-> "none"]
    ELSE [downvoted |-> d, raised |-> "IntegrityError"]

\* variant: INSERT OR IGNORE keeps the row that is already there
save_downvoted_ignore(d, author, comment) ==
    LET row == DownvotedRow(author, comment) IN
    IF ScoreCheck(row)
    THEN [downvoted |-> IF \E r \in d : r.id = row.id THEN d ELSE d \cup {row},
          raised |-> "none"]
    ELSE [downvoted |-> d, raised |-> "IntegrityError"]

\* INSERT OR REPLACE INTO downvoted: a row with the same PRIMARY KEY is
\* deleted first; a CHECK violation aborts the statement.
save_downvoted(d, author, comment) ==
    LET row == DownvotedRow(author, comment) IN
    IF ScoreCheck(row)
    THEN [downvoted |-> { r \in d : r.id # row.id } \cup {row},
          raised |-> "none"]
    ELSE [downvoted |-> d, raised |-> "IntegrityError"]

\* variant: DELETE ... WHERE score <= cutoff
cleanup_upto(d, cutoff) == { r \in d : r.score > cutoff }

\* DELETE FROM downvoted WHERE score = cutoff
cleanup(d, cutoff) == { r \in d : r.score # cutoff }

\* variant: the filter forgets score_hidden
AcceptedScoreOnly(comment) == comment.score <= 0

\* the filter of scan_user
Accepted(comment) == ~comment.score_hidden /\ comment.score <= 0


(***************************************************************************)
(* Initial state: the object has been constructed on a fresh store file    *)
(***************************************************************************)
Init ==
    /\ tables = {}
    /\ tracked = << >>
    /\ downvoted = {}
    /\ pc = "setup"
    /\ users = << >>
    /\ iter = << >>
    /\ idx = 0
    /\ caller = "none"
    /\ scanUser = "none"
    /\ counterBound = FALSE
    /\ yielded = << >>
    /\ saved = << >>
    /\ scanBase = {}
    /\ prev = << >>
    /\ scanned = << >>
    /\ idle = 0
    /\ lastOp = "none"
    /\ raised = "none"
    /\ args = << >>
    /\ removed = 0
    /\ result = << >>

(***************************************************************************)
(* Operations called directly on the object before run() is entered        *)
(***************************************************************************)
\* variant: CREATE TABLE without IF NOT EXISTS
InitDbCreate ==
    /\ pc = "setup"
    /\ tables' = tables \cup TableNames
    /\ lastOp' = "init_db"
    /\ raised' = IF tables = {} THEN "none" ELSE "OperationalError"
    /\ args' = << >>
    /\ removed' = 0
    /\ result' = << >>
    /\ UNCHANGED <<tracked, downvoted, pc, runVars, scanVars>>

\* init_db: CREATE TABLE IF NOT EXISTS, twice
InitDb ==
    /\ pc = "setup"
    /\ tables' = tables \cup TableNames
    /\ lastOp' = "init_db"
    /\ raised' = "none"
    /\ args' = << >>
    /\ removed' = 0
    /\ result' = << >>
    /\ UNCHANGED <<tracked, downvoted, pc, runVars, scanVars>>

\* add_user(user, hidden) at time now
AddUser ==
    /\ pc = "setup"
    /\ \E user \in Usernames, now \in Times, hidden \in BOOLEAN :
         /\ IF "tracked" \in tables
            THEN LET r == add_user(tracked, user, now, hidden) IN
                 /\ tracked' = r.tracked
                 /\ raised' = r.raised
            ELSE /\ tracked' = tracked
                 /\ raised' = "OperationalError"
         /\ args' = <<user, hidden>>
    /\ lastOp' = "add_user"
    /\ removed' = 0
    /\ result' = << >>
    /\ UNCHANGED <<tables, downvoted, pc, runVars, scanVars>>

\* get_users()
GetUsers ==
    /\ pc = "setup"
    /\ IF "tracked" \in tables
       THEN /\ result' = get_users(tracked)
            /\ raised' = "none"
       ELSE /\ result' = << >>
            /\ raised' = "OperationalError"
    /\ lastOp' = "get_users"
    /\ args' = << >>
    /\ removed' = 0
    /\ UNCHANGED <<store, pc, runVars, scanVars>>

\* save_downvoted(author, comment)
SaveDownvoted ==
    /\ pc = "setup"
    /\ \E author \in Usernames, comment \in Comments :
         /\ IF "downvoted" \in tables
            THEN LET r == save_downvoted(downvoted, author, comment) IN
                 /\ downvoted' = r.downvoted
                 /\ raised' = r.raised
            ELSE /\ downvoted' = downvoted
                 /\ raised' = "OperationalError"
         /\ args' = <<author, comment>>
         /\ removed' = Cardinality(downvoted \ downvoted')
    /\ lastOp' = "save_downvoted"
    /\ result' = << >>
    /\ UNCHANGED <<tables, tracked, pc, runVars, scanVars>>

\* cleanup(cutoff)
Cleanup ==
    /\ pc = "setup"
    /\ \E cutoff \in Scores :
         /\ IF "downvoted" \in tables
            THEN /\ downvoted' = cleanup(downvoted, cutoff)
                 /\ raised' = "none"
            ELSE /\ downvoted' = downvoted
                 /\ raised' = "OperationalError"
         /\ args' = <<cutoff>>
         /\ removed' = Cardinality(downvoted \ downvoted')
    /\ lastOp' = "cleanup"
    /\ result' = << >>
    /\ UNCHANGED <<tables, tracked, pc, runVars, scanVars>>

(***************************************************************************)
(* Out-of-band writers of table tracked (another connection to the file)   *)
(***************************************************************************)
\* UPDATE tracked SET deleted = 1 WHERE username = user
SoftDelete ==
    /\ \E i \in 1..Len(tracked) :
         /\ ~tracked[i].deleted
         /\ tracked' = [tracked EXCEPT ![i].deleted = TRUE]
    /\ lastOp' = "oob"
    /\ args' = << >>
    /\ removed' = 0
    /\ result' = << >>
    /\ UNCHANGED <<tables, downvoted, pc, runVars, scanVars, raised>>

\* add_user run by another process while this one is in run()
OobAddUserWith(hiddens) ==
    /\ pc \notin {"setup", "crashed"}
    /\ "tracked" \in tables
    /\ \E user \in Usernames \ TrackedNames(tracked), now \in Times,
          hidden \in hiddens :
         tracked' = add_user(tracked, user, now, hidden).tracked
    /\ lastOp' = "oob"
    /\ UNCHANGED <<tables, downvoted, pc, runVars, scanVars, raised,
                   callVars>>

OobAddUser == OobAddUserWith(BOOLEAN)

\* the same, of users that are not hidden
OobAddVisible == OobAddUserWith({FALSE})

(***************************************************************************)
(* scan_user                                                               *)
(***************************************************************************)
\* entry of scan_user(user): nothing is fetched yet, the listing is lazy
BeginScan(user, who) ==
    /\ pc' = "scan"
    /\ caller' = who
    /\ scanUser' = user
    /\ counterBound' = FALSE
    /\ yielded' = << >>
    /\ saved' = << >>
    /\ scanBase' = downvoted
    /\ raised' = "none"
    /\ lastOp' = "scan_user"

\* scan_user(user) called directly
ScanUser ==
    /\ pc = "setup"
    /\ \E user \in Usernames :
         /\ BeginScan(user, "api")
         /\ args' = <<user>>
    /\ prev' = prev
    /\ removed' = 0
    /\ result' = << >>
    /\ UNCHANGED <<store, runVars>>

\* variant: one transaction around the whole scan, rolled back on failure
ScanStepBatch(comment, writeOk) ==
    /\ yielded' = Append(yielded, comment)
    /\ counterBound' = TRUE
    /\ IF Accepted(comment)
       THEN /\ saved' = Append(saved, comment)
            /\ IF writeOk /\ "downvoted" \in tables
               THEN LET r == save_downvoted(downvoted, scanUser, comment) IN
                    /\ downvoted' = r.downvoted
                    /\ raised' = r.raised
                    /\ pc' = IF r.raised = "none" THEN "scan" ELSE "scan_exit"
               ELSE /\ downvoted' = scanBase
                    /\ raised' = "OperationalError"
                    /\ pc' = "scan_exit"
       ELSE /\ writeOk
            /\ saved' = saved
            /\ downvoted' = downvoted
            /\ raised' = "none"
            /\ pc' = "scan"

\* variant: a comment that is no longer downvoted loses its stored row
ScanStepSync(comment, writeOk) ==
    /\ yielded' = Append(yielded, comment)
    /\ counterBound' = TRUE
    /\ IF Accepted(comment)
       THEN /\ saved' = Append(saved, comment)
            /\ IF writeOk /\ "downvoted" \in tables
               THEN LET r == save_downvoted(downvoted, scanUser, comment) IN
                    /\ downvoted' = r.downvoted
                    /\ raised' = r.raised
                    /\ pc' = IF r.raised = "none" THEN "scan" ELSE "scan_exit"
               ELSE /\ downvoted' = downvoted
                    /\ raised' = "OperationalError"
                    /\ pc' = "scan_exit"
       ELSE /\ writeOk
            /\ saved' = saved
            /\ downvoted' = { r \in downvoted : r.id # comment.fullname }
            /\ raised' = "none"
            /\ pc' = "scan"

\* one iteration of the for loop: the listing yields comment, counter is
\* assigned, and an accepted comment goes to save_downvoted, whose
\* transaction commits (writeOk) or fails and rolls back.
ScanStep(comment, writeOk) ==
    /\ yielded' = Append(yielded, comment)
    /\ counterBound' = TRUE
    /\ IF Accepted(comment)
       THEN /\ saved' = Append(saved, comment)
            /\ IF writeOk /\ "downvoted" \in tables
               THEN LET r == save_downvoted(downvoted, scanUser, comment) IN
                    /\ downvoted' = r.downvoted
                    /\ raised' = r.raised
                    /\ pc' = IF r.raised = "none" THEN "scan" ELSE "scan_exit"
               ELSE /\ downvoted' = downvoted
                    /\ raised' = "OperationalError"
                    /\ pc' = "scan_exit"
       ELSE /\ writeOk
            /\ saved' = saved
            /\ downvoted' = downvoted
            /\ raised' = "none"
            /\ pc' = "scan"

ScanNextFrom(pool) ==
    /\ pc = "scan"
    /\ Len(yielded) < MaxComments
    /\ \E comment \in pool, writeOk \in BOOLEAN :
         ScanStep(comment, writeOk)
    /\ lastOp' = "scan_user"
    /\ UNCHANGED <<tables, tracked, runVars, caller, scanUser, scanBase,
                   prev, callVars>>

ScanNext == caller = "api" /\ ScanNextFrom(SourceComments)

RunScanNext == caller = "run" /\ ScanNextFrom(RunComments)

\* scan_user(user) has returned and is called again with the same user
ScanAgain ==
    /\ pc = "scan_exit"
    /\ caller = "api"
    /\ raised = "none"
    /\ BeginScan(scanUser, "again")
    /\ prev' = yielded
    /\ UNCHANGED <<store, runVars, callVars>>

\* an iteration of the repeated scan: the source yields what it yielded to
\* the scan before
RescanNext ==
    /\ pc = "scan"
    /\ caller = "again"
    /\ Len(yielded) < Len(prev)
    /\ \E writeOk \in BOOLEAN :
         ScanStep(prev[Len(yielded) + 1], writeOk)
    /\ lastOp' = "scan_user"
    /\ UNCHANGED <<tables, tracked, runVars, caller, scanUser, scanBase,
                   prev, callVars>>

\* the Comment Source raises while the listing is being iterated
ScanSourceFail ==
    /\ pc = "scan"
    /\ raised' = "SourceError"
    /\ pc' = "scan_exit"
    /\ lastOp' = "scan_user"
    /\ UNCHANGED <<store, runVars, scanVars, callVars>>

\* the listing is exhausted: line 71 reads the local variable counter
ScanEnd ==
    /\ pc = "scan"
    /\ raised' = IF counterBound THEN "none" ELSE "UnboundLocalError"
    /\ pc' = "scan_exit"
    /\ lastOp' = "scan_user"
    /\ UNCHANGED <<store, runVars, scanVars, callVars>>

\* variant: run() catches the failure of one user and goes on
ScanExitIsolated ==
    /\ pc = "scan_exit"
    /\ IF caller # "run"
       THEN /\ pc' = "setup"
            /\ idx' = idx
       ELSE /\ pc' = "run_for"
            /\ idx' = idx + 1
    /\ caller' = "none"
    /\ scanUser' = "none"
    /\ counterBound' = FALSE
    /\ yielded' = << >>
    /\ saved' = << >>
    /\ scanBase' = {}
    /\ prev' = << >>
    /\ lastOp' = "scan_user"
    /\ UNCHANGED <<store, users, iter, scanned, idle, raised, callVars>>

\* scan_user returns or raises to its caller; in run() nothing catches
ScanExit ==
    /\ pc = "scan_exit"
    /\ IF caller # "run"
       THEN /\ pc' = "setup"
            /\ idx' = idx
       ELSE IF raised = "none"
            THEN /\ pc' = "run_for"
                 /\ idx' = idx + 1
            ELSE /\ pc' = "crashed"
                 /\ idx' = idx
    /\ caller' = "none"
    /\ scanUser' = "none"
    /\ counterBound' = FALSE
    /\ yielded' = << >>
    /\ saved' = << >>
    /\ scanBase' = {}
    /\ prev' = << >>
    /\ lastOp' = "scan_user"
    /\ UNCHANGED <<store, users, iter, scanned, idle, raised, callVars>>

(***************************************************************************)
(* run                                                                     *)
(***************************************************************************)
\* run() is entered and never returns
StartRun ==
    /\ pc = "setup"
    /\ pc' = "run_fetch"
    /\ lastOp' = "run"
    /\ raised' = "none"
    /\ args' = << >>
    /\ removed' = 0
    /\ result' = << >>
    /\ UNCHANGED <<store, runVars, scanVars>>

\* line 89: users = self.get_users()
RunFetch ==
    /\ pc = "run_fetch"
    /\ IF "tracked" \in tables
       THEN /\ users' = get_users(tracked)
            /\ pc' = "run_test"
            /\ raised' = "none"
       ELSE /\ users' = users
            /\ pc' = "crashed"
            /\ raised' = "OperationalError"
    /\ scanned' = << >>
    /\ idle' = 0
    /\ lastOp' = "run"
    /\ UNCHANGED <<store, iter, idx, scanVars, callVars>>

\* variant: continue without the sleep
RunTestNoSleep ==
    /\ pc = "run_test"
    /\ pc' = IF Len(users) = 0 THEN "run_fetch" ELSE "run_iter"
    /\ lastOp' = "run"
    /\ UNCHANGED <<store, runVars, scanVars, raised, callVars>>

\* line 90: if len(users) == 0
RunTest ==
    /\ pc = "run_test"
    /\ pc' = IF Len(users) = 0 THEN "run_sleep" ELSE "run_iter"
    /\ lastOp' = "run"
    /\ UNCHANGED <<store, runVars, scanVars, raised, callVars>>

\* lines 92-93: time.sleep(10); continue
RunSleep ==
    /\ pc = "run_sleep"
    /\ idle' = idle + SleepInterval
    /\ pc' = "run_fetch"
    /\ lastOp' = "run"
    /\ UNCHANGED <<store, users, iter, idx, scanned, scanVars, raised,
                   callVars>>

\* variant: the for loop stops after the first user of the list
RunIterFirstOnly ==
    /\ pc = "run_iter"
    /\ iter' = LET all == get_users(tracked) IN
               IF all = << >> THEN << >> ELSE << Head(all) >>
    /\ idx' = 1
    /\ pc' = "run_for"
    /\ lastOp' = "run"
    /\ UNCHANGED <<store, users, scanned, idle, scanVars, raised,
                   callVars>>

\* line 95: the for loop evaluates self.get_users() once more
RunIter ==
    /\ pc = "run_iter"
    /\ iter' = get_users(tracked)
    /\ idx' = 1
    /\ pc' = "run_for"
    /\ lastOp' = "run"
    /\ UNCHANGED <<store, users, scanned, idle, scanVars, raised,
                   callVars>>

\* variant: a delay between two cycles
RunForDelay ==
    /\ pc = "run_for"
    /\ IF idx <= Len(iter)
       THEN /\ BeginScan(iter[idx][1], "run")
            /\ scanned' = Append(scanned, iter[idx])
            /\ prev' = prev
       ELSE /\ pc' = "run_sleep"
            /\ lastOp' = "run"
            /\ scanned' = scanned
            /\ UNCHANGED <<scanVars, raised>>
    /\ UNCHANGED <<store, users, iter, idx, idle, callVars>>

\* lines 95-96: the next (user, hidden) of the list, or the end of the loop
RunFor ==
    /\ pc = "run_for"
    /\ IF idx <= Len(iter)
       THEN /\ BeginScan(iter[idx][1], "run")
            /\ scanned' = Append(scanned, iter[idx])
            /\ prev' = prev
       ELSE /\ pc' = "run_fetch"
            /\ lastOp' = "run"
            /\ scanned' = scanned
            /\ UNCHANGED <<scanVars, raised>>
    /\ UNCHANGED <<store, users, iter, idx, idle, callVars>>

(***************************************************************************)
(* Specifications                                                          *)
(***************************************************************************)
Next ==
    \/ InitDb
    \/ AddUser
    \/ GetUsers
    \/ SaveDownvoted
    \/ Cleanup
    \/ SoftDelete
    \/ OobAddUser
    \/ ScanUser
    \/ ScanNext
    \/ RunScanNext
    \/ ScanAgain
    \/ RescanNext
    \/ ScanSourceFail
    \/ ScanEnd
    \/ ScanExit
    \/ StartRun
    \/ RunFetch
    \/ RunTest
    \/ RunSleep
    \/ RunIter
    \/ RunFor

Spec == Init /\ [][Next]_vars

\* the writes to the store, called directly
NextStore ==
    \/ InitDb
    \/ AddUser
    \/ SaveDownvoted
    \/ Cleanup

SpecStore == Init /\ [][NextStore]_vars

\* table tracked: its writers, in and out of band, and get_users
NextUsers ==
    \/ InitDb
    \/ AddUser
    \/ GetUsers
    \/ SoftDelete

SpecUsers == Init /\ [][NextUsers]_vars

\* scan_user called directly, any number of times
NextScan ==
    \/ InitDb
    \/ ScanUser
    \/ ScanNext
    \/ ScanSourceFail
    \/ ScanEnd
    \/ ScanExit

SpecScan == Init /\ [][NextScan]_vars

\* scan_user called directly, and called again with the same user
NextRescan ==
    \/ InitDb
    \/ ScanUser
    \/ ScanNext
    \/ ScanAgain
    \/ RescanNext
    \/ ScanEnd
    \/ ScanExit

SpecRescan == Init /\ [][NextRescan]_vars


\* the program: init_db, users added, then run() with out-of-band writers
NextRun ==
    \/ InitDb
    \/ AddUser
    \/ SoftDelete
    \/ OobAddUser
    \/ StartRun
    \/ RunFetch
    \/ RunTest
    \/ RunSleep
    \/ RunIter
    \/ RunFor
    \/ RunScanNext
    \/ ScanSourceFail
    \/ ScanEnd
    \/ ScanExit

SpecRun == Init /\ [][NextRun]_vars

\* the next step of the single thread that executes run()
LoopStep ==
    \/ RunFetch
    \/ RunTest
    \/ RunSleep
    \/ RunIter
    \/ RunFor
    \/ RunScanNext
    \/ ScanEnd
    \/ ScanExit

\* the program with a thread that keeps running: the loop takes its next
\* step whenever it has one; the out-of-band writers and the failures of
\* the source and of the store may or may not happen
NextLoop ==
    \/ InitDb
    \/ StartRun
    \/ SoftDelete
    \/ OobAddVisible
    \/ ScanSourceFail
    \/ LoopStep

SpecRunFair == Init /\ [][NextLoop]_vars /\ WF_vars(LoopStep)


(***************************************************************************)
(* Properties                                                              *)
(***************************************************************************)
RowsWithId(d, id) == { r \in d : r.id = id }

\* a comment counts as downvoted when its score is shown and is not positive
IsDownvoted(c) == c.score_hidden = FALSE /\ c.score <= 0

\* C1: in every scan, save_downvoted has been called with exactly the
\* yielded comments that are not score-hidden and have score <= 0, in the
\* order the source yielded them; a score-hidden comment and a comment with
\* score > 0 are never among them.
C1_FilterCorrect ==
    pc \in {"scan", "scan_exit"} =>
        /\ saved = SelectSeq(yielded, IsDownvoted)
        /\ \A i \in 1..Len(saved) :
             saved[i].score_hidden = FALSE /\ saved[i].score <= 0

C1_Witness ==
    /\ pc = "scan_exit"
    /\ raised = "none"
    /\ Len(yielded) = 2
    /\ Len(saved) = 1
    /\ \E i \in 1..2 : yielded[i].score_hidden /\ yielded[i].score < 0

\* A direct save_downvoted step on a table that already holds a row with
\* the id of its comment and another score or body
SecondSave ==
    /\ lastOp' = "save_downvoted"
    /\ "downvoted" \in tables
    /\ \E r \in downvoted :
         /\ r.id = args'[2].fullname
         /\ r.score # args'[2].score \/ r.body # args'[2].body

\* what the second call has to leave behind
Replaced ==
    /\ raised' = "none"
    /\ RowsWithId(downvoted', args'[2].fullname)
         = {DownvotedRow(args'[1], args'[2])}
    /\ { r \in downvoted' : r.id # args'[2].fullname }
         = { r \in downvoted : r.id # args'[2].fullname }

\* C2 as stated: a second save_downvoted with the same id and a different
\* score or body always replaces the row and never raises.
C2_Original == [][SecondSave => Replaced]_vars

\* C2 amended: a second save_downvoted with the same id, a different score
\* or body and a score <= 0 leaves exactly one row with that id, holding the
\* values of the second call, raises nothing and leaves the other rows
\* alone; with a score > 0 it raises IntegrityError and the table is
\* unchanged.
C2_UpsertReplaces ==
    [][SecondSave =>
          IF args'[2].score <= 0
          THEN Replaced
          ELSE raised' = "IntegrityError" /\ downvoted' = downvoted]_vars

C2_Witness ==
    /\ lastOp = "save_downvoted"
    /\ raised = "none"
    /\ removed = 1
    /\ Cardinality(downvoted) = 2
    /\ DownvotedRow(args[1], args[2]) \in downvoted

\* the (username, hidden) pairs of the rows that are not soft-deleted
ActivePairs(t) ==
    { <<t[i].username, t[i].hidden>> : i \in { j \in 1..Len(t) : ~t[j].deleted } }

\* C3: get_users returns exactly the (username, hidden) pairs of the tracked
\* rows whose deleted flag is false, each once, and changes nothing in the
\* store.
C3_ActiveUsersOnly ==
    [][(lastOp' = "get_users" /\ "tracked" \in tables) =>
          /\ raised' = "none"
          /\ Range(result') = ActivePairs(tracked)
          /\ Len(result') = Cardinality(ActivePairs(tracked))
          /\ \A i \in 1..Len(tracked) :
               tracked[i].deleted =>
                  \A k \in 1..Len(result') :
                     result'[k][1] # tracked[i].username
          /\ store' = store]_vars

C3_Witness ==
    /\ lastOp = "get_users"
    /\ Len(tracked) = 2
    /\ Len(result) = 1
    /\ \E i \in 1..2 : tracked[i].deleted

\* C4: add_user on a username without a row appends one row with deleted =
\* false and the given hidden flag; on a username that has a row, deleted
\* or not, it raises IntegrityError and leaves tracked as it was.
C4_AddUserUnique ==
    [][(lastOp' = "add_user" /\ "tracked" \in tables) =>
          LET user == args'[1]
              hidden == args'[2]
          IN  IF user \in TrackedNames(tracked)
              THEN raised' = "IntegrityError" /\ store' = store
              ELSE /\ raised' = "none"
                   /\ Len(tracked') = Len(tracked) + 1
                   /\ SubSeq(tracked', 1, Len(tracked)) = tracked
                   /\ tracked'[Len(tracked')].username = user
                   /\ tracked'[Len(tracked')].hidden = hidden
                   /\ tracked'[Len(tracked')].deleted = FALSE
                   /\ tracked'[Len(tracked')].added \in Times
                   /\ downvoted' = downvoted]_vars

C4_Witness ==
    /\ lastOp = "add_user"
    /\ raised = "IntegrityError"
    /\ \E i \in 1..Len(tracked) :
         tracked[i].username = args[1] /\ tracked[i].deleted

\* C5: cleanup(cutoff) removes exactly the downvoted rows whose score is
\* cutoff: none of them remains, every other row is still there unchanged,
\* no row appears, and tracked is unchanged.
C5_CleanupExact ==
    [][(lastOp' = "cleanup" /\ "downvoted" \in tables) =>
          LET cutoff == args'[1] IN
          /\ raised' = "none"
          /\ \A r \in downvoted' : r.score # cutoff
          /\ \A r \in downvoted : r.score # cutoff => r \in downvoted'
          /\ downvoted' \subseteq downvoted
          /\ tracked' = tracked
          /\ tables' = tables]_vars

C5_Witness ==
    /\ lastOp = "cleanup"
    /\ args = <<0>>
    /\ removed = 1
    /\ Cardinality(downvoted) = 1
    /\ tracked # << >>

\* C7: init_db never raises, leaves both tables in place and no row of
\* tracked or downvoted changed; on a store that has both tables it changes
\* nothing at all.
C7_InitDbIdempotent ==
    [][lastOp' = "init_db" =>
          /\ raised' = "none"
          /\ tables' = TableNames
          /\ tracked' = tracked
          /\ downvoted' = downvoted
          /\ (tables = TableNames => store' = store)]_vars

C7_Witness ==
    /\ lastOp = "init_db"
    /\ raised = "none"
    /\ tracked # << >>
    /\ downvoted # {}

\* the process has failed inside run()
Failed ==
    \/ pc = "crashed"
    \/ pc = "scan_exit" /\ caller = "run" /\ raised # "none"

\* C6: after run() has fetched an empty list it scans nobody, calls the
\* Comment Source for nothing, writes nothing to the store, and reaches the
\* next get_users only through the sleep of SleepInterval.
C6_IdleWhenEmpty ==
    [][(pc \in {"run_test", "run_sleep"} /\ Len(users) = 0) =>
          /\ pc' \in {"run_test", "run_sleep", "run_fetch"}
          /\ scanned' = scanned
          /\ yielded' = yielded
          /\ saved' = saved
          /\ downvoted' = downvoted
          /\ tables' = tables
          /\ (tracked' # tracked => lastOp' = "oob")
          /\ (pc' = "run_fetch" =>
                pc = "run_sleep" /\ idle' = SleepInterval)]_vars

C6_Witness ==
    /\ pc = "run_fetch"
    /\ idle = SleepInterval
    /\ users = << >>
    /\ Len(tracked) = 1
    /\ tracked[1].deleted

\* C8: in every poll cycle the (user, hidden) pairs scanned are the pairs
\* of the list fetched at line 89, in order, each once: while the for loop
\* runs they are a prefix of it, and when the loop ends they are all of it.
C8_ScansFetchedList ==
    (pc = "run_for" \/ (pc \in {"scan", "scan_exit"} /\ caller = "run")) =>
        /\ Len(scanned) <= Len(users)
        /\ SubSeq(users, 1, Len(scanned)) = scanned
        /\ (pc = "run_for" /\ idx > Len(iter) => scanned = users)

\* C9: once a scan of run() has raised, the process stays failed: no other
\* user is scanned, no poll cycle starts, the Comment Source is not called
\* and run() writes nothing; the store changes only by out-of-band writers.
C9_FailureIsTerminal ==
    [][Failed =>
          /\ Failed'
          /\ scanned' = scanned
          /\ users' = users
          /\ iter' = iter
          /\ idx' = idx
          /\ Len(yielded') <= Len(yielded)
          /\ downvoted' = downvoted
          /\ tables' = tables
          /\ (tracked' # tracked => lastOp' = "oob")]_vars

C9_Witness ==
    /\ pc = "crashed"
    /\ raised = "SourceError"
    /\ Len(iter) = 2
    /\ idx = 1
    /\ Len(scanned) = 1
    /\ downvoted # {}

\* the comment at position i of acc is the last one of acc with its id
LastOfId(acc, i) ==
    \A j \in (i + 1)..Len(acc) : acc[j].fullname # acc[i].fullname

\* the table after the comments of acc were upserted one by one into base
UpsertedInOrder(base, user, acc) ==
    { r \in base : \A i \in 1..Len(acc) : acc[i].fullname # r.id }
        \cup { DownvotedRow(user, acc[i]) :
                 i \in { j \in 1..Len(acc) : LastOfId(acc, j) } }

\* position of the comment a failed scan failed at: the last one yielded
\* when its write failed, the one after it when the source failed
FailedAt ==
    IF raised \in {"OperationalError", "IntegrityError"}
    THEN Len(yielded)
    ELSE Len(yielded) + 1

\* C10: at every point of a scan, and in particular when it has failed at
\* the k-th comment, table downvoted is what it was when the scan began
\* with the accepted comments before position k upserted in source order:
\* whole rows only, and nothing of the failing comment or of a later one.
C10_PerCommentCommit ==
    pc \in {"scan", "scan_exit"} =>
        LET k == IF raised = "none" THEN Len(yielded) + 1 ELSE FailedAt
            before == SubSeq(yielded, 1, k - 1)
        IN  downvoted
              = UpsertedInOrder(scanBase, scanUser, SelectSeq(before, IsDownvoted))

C10_Witness ==
    /\ pc = "scan_exit"
    /\ raised = "OperationalError"
    /\ tables = TableNames
    /\ Len(yielded) = 2
    /\ Len(saved) = 2
    /\ yielded[1].fullname # yielded[2].fullname
    /\ scanBase = {}
    /\ downvoted = {DownvotedRow(scanUser, yielded[1])}

\* C11: the loop of run() is Idle or Scanning, chosen by the emptiness of
\* the list fetched at line 89 alone: the step after the test sleeps if and
\* only if that list is empty, nothing else leads to the sleep, the end of
\* the for loop leads straight to the next fetch with no sleep in between,
\* and run() never returns to its caller.
C11_TwoStateLoop ==
    [][/\ (pc = "run_test" /\ pc' # pc) =>
             pc' = IF Len(users) = 0 THEN "run_sleep" ELSE "run_iter"
       /\ (pc' = "run_sleep" /\ pc # "run_sleep") =>
             pc = "run_test" /\ Len(users) = 0
       /\ (idle' > idle) => pc = "run_sleep" /\ Len(users) = 0
       /\ (pc = "run_for" /\ idx > Len(iter) /\ pc' # pc) =>
             pc' = "run_fetch" /\ idle' = 0
       /\ (pc # "setup") => pc' # "setup"]_vars

C11_Witness ==
    /\ pc = "run_fetch"
    /\ idle = 0
    /\ Len(users) = 2
    /\ scanned = users

\* C12: every row of downvoted has a score that is an integer <= 0, after
\* every step of the operations on the store; a save_downvoted whose comment
\* has score > 0 is rejected by the schema (IntegrityError) and leaves the
\* table as it was.
C12_ScoreNonPositive ==
    [][/\ \A r \in downvoted' : r.score \in Int /\ r.score <= 0
       /\ (/\ lastOp' = "save_downvoted"
           /\ "downvoted" \in tables
           /\ args'[2].score > 0) =>
              raised' = "IntegrityError" /\ downvoted' = downvoted]_vars

C12_Witness ==
    /\ lastOp = "save_downvoted"
    /\ args[2].score > 0
    /\ raised = "IntegrityError"
    /\ downvoted # {}
    /\ \A r \in downvoted : r.score <= 0

SavedIds == { saved[i].fullname : i \in 1..Len(saved) }

\* what a scan in progress or just finished may have done to downvoted,
\* against the table as it was when the scan began
ScanFrame ==
    /\ \A r \in scanBase : r.id \notin SavedIds => r \in downvoted
    /\ \A r \in scanBase : \E q \in downvoted : q.id = r.id
    /\ \A r \in downvoted \ scanBase :
         \E i \in 1..Len(saved) : r = DownvotedRow(scanUser, saved[i])

\* C13: a scan changes nothing but the rows of downvoted whose id is that
\* of a comment accepted in that scan: the steps of scan_user leave tracked
\* and the schema alone, delete no row, and a row stored earlier whose
\* comment is now score-hidden, has score > 0 or is not yielded keeps its
\* stored values.
C13_ScanFrame ==
    [][pc' \in {"scan", "scan_exit"} =>
          /\ ScanFrame'
          /\ pc = "scan" => tracked' = tracked /\ tables' = tables]_vars

C13_Witness ==
    /\ pc = "scan_exit"
    /\ raised = "none"
    /\ downvoted # scanBase
    /\ \E r \in scanBase, i \in 1..Len(yielded) :
         /\ yielded[i].fullname = r.id
         /\ yielded[i].score > 0 \/ yielded[i].score_hidden
         /\ r \in downvoted

\* C14: scanning is idempotent: when scan_user(u) has returned and is called
\* again right away, and the source yields the same sequence as before, the
\* second scan returns normally and leaves downvoted equal to what the first
\* scan left (unless a write of the second scan fails in the store).
C14_RescanIdempotent ==
    (/\ pc = "scan_exit"
     /\ caller = "again"
     /\ yielded = prev
     /\ raised # "OperationalError") =>
        raised = "none" /\ downvoted = scanBase

C14_Witness ==
    /\ pc = "scan_exit"
    /\ caller = "again"
    /\ raised = "none"
    /\ Len(prev) = 2
    /\ yielded = prev
    /\ Len(saved) = 2
    /\ saved[1].fullname = saved[2].fullname
    /\ saved[1].score # saved[2].score
    /\ downvoted = scanBase

\* the tables tracked that differ from t in hidden flags only
HiddenVariants(t) ==
    { [i \in 1..Len(t) |-> [t[i] EXCEPT !.hidden = h[i]]] :
        h \in [1..Len(t) -> BOOLEAN] }

NamesOf(list) == [i \in 1..Len(list) |-> list[i][1]]

\* C15: the hidden flag has no influence on scanning. Step by step: from
\* any table tracked that differs in hidden flags only, the fetch of line
\* 89 returns a list of the same length (same branch at line 90) and the
\* fetch of line 95 returns the same usernames in the same order; the for
\* loop passes on the username alone; and every row a scan writes is built
\* from that username and the yielded comment alone. Two runs that differ
\* in hidden flags only therefore scan the same users in the same order and
\* write the same rows.
C15_HiddenNoInfluence ==
    [][/\ (pc = "run_fetch" /\ pc' = "run_test") =>
             \A t2 \in HiddenVariants(tracked) :
                 /\ Len(get_users(t2)) = Len(users')
                 /\ NamesOf(get_users(t2)) = NamesOf(users')
       /\ (pc = "run_iter" /\ pc' = "run_for") =>
             \A t2 \in HiddenVariants(tracked) :
                 NamesOf(get_users(t2)) = NamesOf(iter')
       /\ (pc = "run_for" /\ pc' = "scan") =>
             scanUser' = NamesOf(iter)[idx]
       /\ (pc = "scan" /\ caller = "run") =>
             \A r \in downvoted' \ downvoted :
                 r = DownvotedRow(scanUser, yielded'[Len(yielded')])]_vars

C15_Witness ==
    /\ pc = "run_fetch"
    /\ Len(scanned) = 2
    /\ scanned[1][2] = TRUE
    /\ scanned[2][2] = FALSE
    /\ \E r \in downvoted : r.author = scanned[1][1]

\* C16: scan_user returns normally for every finite sequence the source
\* returns, the empty one included: a scan whose listing ended without any
\* comment (and without a failure of the source) has raised nothing and has
\* left the store as it was, and run() is never ended by anything but a
\* failure of the source or of the store.
C16_EmptyScanReturns ==
    /\ (pc = "scan_exit" /\ yielded = << >> /\ raised # "SourceError") =>
           raised = "none" /\ downvoted = scanBase
    /\ pc = "crashed" =>
           raised \in {"SourceError", "OperationalError", "IntegrityError"}

\* C17: the author of every row of downvoted is the username of a row of
\* tracked, soft-deleted or not, in every state of the program: init_db,
\* users added, then run() with users added and soft-deleted out of band.
C17_AuthorTracked ==
    \A r \in downvoted : r.author \in TrackedNames(tracked)

C17_Witness ==
    \E r \in downvoted, i \in 1..Len(tracked) :
        /\ tracked[i].username = r.author
        /\ tracked[i].deleted

Active(u) ==
    \E i \in 1..Len(tracked) : tracked[i].username = u /\ ~tracked[i].deleted

\* C18: no starvation. In every fair run of the loop in which run() is
\* entered and no call raises (every scan ends after finitely many
\* comments), a user who from some moment on stays in tracked with
\* deleted = false, whether added before run() or out of band while the
\* loop runs, is scanned again and again.
C18_NoStarvation ==
    \A u \in Usernames :
        (<>(pc # "setup") /\ [](pc # "crashed") /\ <>[]Active(u)) =>
            []<>(pc = "scan" /\ caller = "run" /\ scanUser = u)

C18_Witness ==
    /\ pc = "scan"
    /\ caller = "run"
    /\ Len(users) = 1
    /\ users[1][1] # scanUser
    /\ Len(iter) = 2
    /\ idx = 2
====
